---- MODULE Spec2Model ----
(***************************************************************************)
(* xfind: forward and backward substring search over a byte stream through *)
(* a fixed-capacity roll buffer (src/src/buffer.rs, src/src/finder.rs).    *)
(*                                                                         *)
(* One behaviour is one search session: a needle, a stream and a searcher  *)
(* (FindIter or FindRevIter) are fixed by Init, and the caller then calls  *)
(* next() again and again.  The body of next() is a loop; every block of   *)
(* that loop is one action and pc says which block runs next.              *)
(* Offsets are 0-based as in the source; Slice converts to TLA+ sequences. *)
(***************************************************************************)
EXTENDS Integers, Sequences, FiniteSets, TLC

(* ------------------------------ bounds --------------------------------- *)

\* Longest needle of a forward session.
MaxNeedleLen == 3
\* Longest of the short streams: every byte string up to this length is a
\* stream.  A forward session reads them with short reads, so that the
\* window rolls inside them.
MaxStreamLen == 5
\* Longest needle of a backward session.
MaxRevNeedleLen == 2
\* Long streams differ from a run of zero bytes only in their first and in
\* their last MaxEdgeLen bytes.
MaxEdgeLen == 2
\* Number of I/O failures the stream may produce in one session.
MaxFaults == 1
\* Number of items after which the caller stops calling next().
MaxItems == 11
\* Number of next() calls the caller still makes after a call returned None.
MaxCallsAfterNone == 1
\* Largest offset the caller passes to seek_to.
MaxSeekTo == 1
\* The specification of construction takes stream lengths up to this far
\* from 0 and from the largest usize.
MaxNewSlack == 2
\* Width of usize in bits.  The source runs with 64; the arithmetic of the
\* model only needs the wrap-around to be far above every offset.
UsizeBits == 16
\* buffer.rs:6 sets 8 * (1 << 10); the model scales the default capacity
\* down.  It stays above CapacityFactor * 1, so that it is the capacity of
\* the window of a 1-byte needle, and below CapacityFactor * 2, so that the
\* window of a longer needle is sized by the needle.
DEFAULT_BUFFER_CAPACITY == 10

(* ------------------------- program constants --------------------------- *)

\* buffer.rs:25  capacity = max(min * 8, DEFAULT_BUFFER_CAPACITY)
CapacityFactor == 8

\* The byte values that occur in needles and streams.  0 is also the value
\* vec![0; capacity] fills a new buffer with.
Byte == {0, 1}

(* ------------------------------ helpers -------------------------------- *)

Max(a, b) == IF a >= b THEN a ELSE b
Min(a, b) == IF a <= b THEN a ELSE b

RECURSIVE Pow2(_)
Pow2(n) == IF n = 0 THEN 1 ELSE 2 * Pow2(n - 1)

\* Number of values of a usize.
UsizeMod == Pow2(UsizeBits)

\* s[from..to] of the source: 0-based, `to` exclusive.
Slice(s, from, to) == SubSeq(s, from + 1, to)

\* All byte strings of length 0..n.
RECURSIVE SeqsUpTo(_)
SeqsUpTo(n) ==
    IF n = 0 THEN {<<>>}
    ELSE LET shorter == SeqsUpTo(n - 1)
         IN  shorter \cup {Append(s, b) : s \in {t \in shorter : Len(t) = n - 1}, b \in Byte}

\* memchr::memmem::find(haystack, needle): the offset of the leftmost
\* occurrence, -1 for None.  An empty needle occurs at offset 0.
memmem_find(hay, ndl) ==
    LET occ == {i \in 0..(Len(hay) - Len(ndl)) : Slice(hay, i, i + Len(ndl)) = ndl}
    IN  IF occ = {} THEN -1
        ELSE CHOOSE i \in occ : \A j \in occ : i <= j

\* memchr::memmem::rfind(haystack, needle): the offset of the rightmost
\* occurrence, -1 for None.  An empty needle occurs at offset Len(hay).
memmem_rfind(hay, ndl) ==
    LET occ == {i \in 0..(Len(hay) - Len(ndl)) : Slice(hay, i, i + Len(ndl)) = ndl}
    IN  IF occ = {} THEN -1
        ELSE CHOOSE i \in occ : \A j \in occ : i >= j

\* k zero bytes.
Zeros(k) == [i \in 1..k |-> 0]

\* Long streams for a window of `capacity` bytes, built like the haystacks
\* of the tests in finder.rs (a run of zero bytes around a short text):
\* the run is about one window long, or the stream just below two windows.
LongRuns(capacity) ==
    ((capacity - 1)..(capacity + 1))
        \cup ((2 * capacity - 4 - 2 * MaxEdgeLen)..(2 * capacity - 2 - 2 * MaxEdgeLen))

LongStreams(capacity) ==
    {h \o Zeros(k) \o t : h \in SeqsUpTo(MaxEdgeLen), t \in SeqsUpTo(MaxEdgeLen),
                          k \in LongRuns(capacity)}

(* ------------------------- Buffer / BufferRev -------------------------- *)

\* BufferNew without the default capacity as lower bound.
BufferNew_NoDefault(min_buffer_len) ==
    LET min == Max(1, min_buffer_len)
    IN  [buf |-> [i \in 1..(min * CapacityFactor) |-> 0], min |-> min, end |-> 0]

\* BufferNew with a min of one byte whatever the needle.
BufferNew_MinOne(min_buffer_len) ==
    LET capacity == Max(Max(1, min_buffer_len) * CapacityFactor, DEFAULT_BUFFER_CAPACITY)
    IN  [buf |-> [i \in 1..capacity |-> 0], min |-> 1, end |-> 0]

\* Buffer::new / BufferRev::new
BufferNew(min_buffer_len) ==
    LET min == Max(1, min_buffer_len)
        capacity == Max(min * CapacityFactor, DEFAULT_BUFFER_CAPACITY)
    IN  [buf |-> [i \in 1..capacity |-> 0], min |-> min, end |-> 0]

Capacity(b) == Len(b.buf)

\* Buffer::buffer: &buf[..end]
FwdContent(b) == Slice(b.buf, 0, b.end)

\* FwdFree taking the whole storage for free space.
FwdFree_WholeStorage(b) == Capacity(b)

\* Buffer::free_buffer().len()
FwdFree(b) == Capacity(b) - b.end

\* One rdr.read(free_buffer()) that delivered `bytes`, followed by
\* self.end += bytes_read (Buffer::fill, one loop iteration).
FwdAppend(b, bytes) ==
    [b EXCEPT !.buf = [i \in 1..Capacity(b) |->
                          IF i > b.end /\ i <= b.end + Len(bytes)
                          THEN bytes[i - b.end] ELSE b.buf[i]],
              !.end = b.end + Len(bytes)]

\* BufferRoll that only cuts the content down to its first min bytes.
BufferRoll_KeepFront(b) == [b EXCEPT !.end = b.min]

\* BufferRoll leaving the buffer as it is.
BufferRoll_KeepAll(b) == b

\* Buffer::roll: move the last `min` bytes to the front, end = min.
BufferRoll(b) ==
    LET roll_start == b.end - b.min
    IN  [b EXCEPT !.buf = [i \in 1..Capacity(b) |->
                              IF i <= b.min THEN b.buf[roll_start + i] ELSE b.buf[i]],
                  !.end = b.min]

\* BufferRev::buffer: &buf[capacity - end..]
RevContent(b) == Slice(b.buf, Capacity(b) - b.end, Capacity(b))

\* BufferRev::free_buffer().len()
RevFree(b) == Capacity(b) - b.end

\* RevPrepend reading into the start of the free part.
RevPrepend_AtStart(b, bytes) ==
    [b EXCEPT !.buf = [i \in 1..Capacity(b) |->
                          IF i <= Len(bytes) THEN bytes[i] ELSE b.buf[i]],
              !.end = b.end + Len(bytes)]

\* BufferRev::fill_exact, Ok branch: `bytes` (amount of them) land in
\* free_buffer()[free_buffer_len - amount..], end += amount.
RevPrepend(b, bytes) ==
    LET first == RevFree(b) - Len(bytes)
    IN  [b EXCEPT !.buf = [i \in 1..Capacity(b) |->
                              IF i > first /\ i <= first + Len(bytes)
                              THEN bytes[i - first] ELSE b.buf[i]],
                  !.end = b.end + Len(bytes)]

\* What read_exact leaves in the destination when it fails with
\* UnexpectedEof: the bytes it got are at the start of the destination
\* slice, end is unchanged.
RevPartial(b, amount, bytes) ==
    LET first == RevFree(b) - amount
    IN  [b EXCEPT !.buf = [i \in 1..Capacity(b) |->
                              IF i > first /\ i <= first + Len(bytes)
                              THEN bytes[i - first] ELSE b.buf[i]]]

\* BufferRollRight that only cuts the content down to its last min bytes.
BufferRollRight_KeepBack(b) == [b EXCEPT !.end = b.min]

\* BufferRev::roll_right: move the first `min` bytes of the content to the
\* end of the storage, end = min.
BufferRollRight(b) ==
    LET content == RevContent(b)
        capacity == Capacity(b)
    IN  [b EXCEPT !.buf = [i \in 1..capacity |->
                              IF i > capacity - b.min
                              THEN content[i - (capacity - b.min)] ELSE b.buf[i]],
                  !.end = b.min]

(* --------------------------- usize arithmetic -------------------------- *)

\* a - b on usize goes below zero: a panic with overflow checks (the test
\* and debug profiles), a wrap-around without them (the release profile).
Underflows(a, b) == a < b
WrappingSub(a, b) == (a - b + UsizeMod) % UsizeMod
Overflows(a, b) == a + b >= UsizeMod
WrappingAdd(a, b) == (a + b) % UsizeMod
\* usize::saturating_sub
SaturatingSub(a, b) == IF a >= b THEN a - b ELSE 0

(* ------------------------------- state --------------------------------- *)

VARIABLES
    mode,            \* "fwd": FindIter, "rev": FindRevIter
    needle,          \* FindIter.needle / FindRevIter.needle
    stream,          \* the bytes of the underlying stream
    end_pos,         \* what rdr.seek(SeekFrom::End(0)) returns (a u64): the
                     \* length of the underlying stream
    prev,            \* the positions yielded by the finished session that
                     \* ran before over the same stream; NoSession if none
    short_reads,     \* may a read return fewer bytes than it could?
    rdr_pos,         \* cursor of the underlying stream (rdr)
    faults,          \* I/O failures the stream will still produce
    wrapped,         \* has a usize operation wrapped around? (only a build
                     \* without overflow checks gets that far)
    buf,             \* Buffer / BufferRev: [buf, min, end]
    search_pos,      \* FindIter.search_pos / FindRevIter.search_pos
    stream_pos,      \* FindIter.stream_pos / FindRevIter.stream_pos
    report_pos,      \* FindIter.report_pos / FindRevIter.report_pos
    seek_pos,        \* FindRevIter.seek_pos
    stream_len,      \* FindRevIter.stream_len
    pc,              \* block of next() that runs next; "idle" between calls
    readany,         \* local of Buffer::fill
    amount,          \* local of FindRevIter::next: size of the next chunk
    items,           \* the positions p of the Some(Ok(p)) returned so far
    errs,            \* how many next() calls have returned Some(Err(_))
    last,            \* what the latest finished call returned
    nones,           \* how many next() calls have returned None
    rolls,           \* FindIter: how many bytes had been read at each roll
    entry            \* a direct caller of Buffer / BufferRev (the tests of
                     \* buffer.rs): the method it called last, and the
                     \* buffer and the cursor of the stream at that call;
                     \* NoCall in a search session

vars == <<mode, needle, stream, end_pos, prev, short_reads, rdr_pos, faults,
          wrapped, buf,
          search_pos, stream_pos, report_pos, seek_pos, stream_len, pc,
          readany, amount, items, errs, last, nones, rolls, entry>>

\* FindIter::new / FindIter::new_with_needle over a stream at its start.
InitFwd ==
    /\ mode = "fwd"
    /\ needle \in SeqsUpTo(MaxNeedleLen)
    /\ \/ /\ stream \in SeqsUpTo(MaxStreamLen)
          /\ short_reads = TRUE
       \/ /\ stream \in LongStreams(Capacity(BufferNew(Len(needle))))
          /\ short_reads = FALSE
    /\ rdr_pos = 0
    /\ buf = BufferNew(Len(needle))
    /\ search_pos = 0
    /\ stream_pos = 0
    /\ report_pos = 0
    /\ seek_pos = 0
    /\ stream_len = 0

\* FindRevIter::new / new_with_needle: seek(SeekFrom::End(0)) gave the
\* length and left the cursor at the end.
InitRev ==
    /\ mode = "rev"
    /\ needle \in SeqsUpTo(MaxRevNeedleLen)
    /\ stream \in SeqsUpTo(MaxStreamLen)
                  \cup LongStreams(Capacity(BufferNew(Len(needle))))
    /\ short_reads = FALSE
    /\ rdr_pos = Len(stream)
    /\ buf = BufferNew(Len(needle))
    /\ search_pos = 0
    /\ stream_pos = Len(stream)
    /\ report_pos = 0
    /\ seek_pos = Len(stream)
    /\ stream_len = Len(stream)

\* The value of prev in the first session over a stream.
NoSession == <<-1>>

\* The value of entry when the buffer belongs to a searcher.
NoCall == [op |-> "none", nth |-> 0]

Init ==
    /\ InitFwd \/ InitRev
    /\ end_pos = Len(stream)
    /\ prev = NoSession
    /\ faults = MaxFaults
    /\ wrapped = FALSE
    /\ pc = "idle"
    /\ readany = FALSE
    /\ amount = 0
    /\ items = <<>>
    /\ errs = 0
    /\ last = "start"
    /\ nones = 0
    /\ rolls = {}
    /\ entry = NoCall

(* ---------------------------- how next() ends -------------------------- *)

\* What one session never changes.
session == <<mode, needle, stream, end_pos, prev, short_reads, stream_len, entry>>

\* return Some(Ok(p))
ReturnOk(p) ==
    /\ items' = Append(items, p)
    /\ last' = "ok"
    /\ pc' = "idle"
    /\ UNCHANGED <<errs, nones>>

\* return Some(Err(e))
ReturnErr ==
    /\ errs' = errs + 1
    /\ last' = "err"
    /\ pc' = "idle"
    /\ UNCHANGED <<items, nones>>

\* return None
ReturnNone ==
    /\ last' = "none"
    /\ nones' = nones + 1
    /\ pc' = "idle"
    /\ UNCHANGED <<items, errs>>

\* Nothing is returned: next() goes on with block `to`.
GoOn(to) ==
    /\ pc' = to
    /\ UNCHANGED <<items, errs, last, nones>>

\* An arithmetic overflow panics in a build with overflow checks (the test
\* and debug profiles) and wraps around in a build without them (release).
\* As long as nothing has wrapped the build can be either.  The panic
\* unwinds out of next() and the searcher is not used again.
Panics == pc' = "panic" /\ ~wrapped /\ UNCHANGED <<items, errs, last, nones>>

\* The caller calls next().  It stops after MaxItems positions and after
\* 1 + MaxCallsAfterNone calls that returned None.
Call ==
    /\ pc = "idle"
    /\ Len(items) < MaxItems
    /\ nones <= MaxCallsAfterNone
    /\ GoOn("scan")
    /\ UNCHANGED <<session, rdr_pos, faults, wrapped, buf, search_pos,
                   stream_pos, report_pos, seek_pos, readany, amount, rolls>>

(* --------------------------- FindIter::next ---------------------------- *)

\* FwdReportPos with the window-relative offset reported as it is.
FwdReportPos_Relative(spos, mat) == mat

\* finder.rs:444  the position reported for a match at offset mat of the
\* unsearched part.
FwdReportPos(spos, mat) == spos + mat

\* FwdAdvance going one byte beyond the end of the match.
FwdAdvance_PastMatch(mat, needle_len) == mat + needle_len + 1

\* finder.rs:445-446  how far a match moves stream_pos and search_pos.
FwdAdvance(mat, needle_len) == mat + needle_len

\* FwdRetainedIsNeedle never recognising the needle.
FwdRetainedIsNeedle_Never(rolled, ndl) == FALSE

\* finder.rs:457-458  after the roll, is the retained suffix the needle?
FwdRetainedIsNeedle(rolled, ndl) == Slice(FwdContent(rolled), 0, rolled.min) = ndl

\* finder.rs:439-452  search the unsearched part of the window.
FwdScan ==
    /\ mode = "fwd" /\ pc = "scan"
    /\ LET mat == memmem_find(Slice(FwdContent(buf), search_pos, buf.end), needle)
       IN  IF search_pos < buf.end /\ mat >= 0
           THEN /\ report_pos' = FwdReportPos(stream_pos, mat)
                /\ stream_pos' = stream_pos + FwdAdvance(mat, Len(needle))
                /\ search_pos' = search_pos + FwdAdvance(mat, Len(needle))
                /\ ReturnOk(report_pos')
           ELSE /\ stream_pos' = IF search_pos < buf.end
                                 THEN stream_pos + (buf.end - search_pos)
                                 ELSE stream_pos
                /\ search_pos' = IF search_pos < buf.end THEN buf.end ELSE search_pos
                /\ GoOn("roll")
                /\ UNCHANGED report_pos
    /\ UNCHANGED <<session, rdr_pos, faults, wrapped, buf, seek_pos, readany,
                   amount, rolls>>

\* RollsWindow rolling the window whatever it holds.
RollsWindow_Always(b) == TRUE

\* finder.rs:455 and 556  is the window rolled before the refill?
RollsWindow(b) == b.end >= b.min

\* buffer.rs:76-79 and 178-181  roll() or roll_right() is called with fewer
\* than min bytes: checked_sub gives None and expect panics, in every build.
RollPanics ==
    /\ pc' = "panic"
    /\ UNCHANGED <<items, errs, last, nones, buf, search_pos, stream_pos, wrapped>>

\* finder.rs:454-465  roll the window and decide where the next search starts.
FwdRoll ==
    /\ mode = "fwd" /\ pc = "roll"
    /\ IF RollsWindow(buf)
       THEN IF Underflows(buf.end, buf.min)
       THEN RollPanics /\ UNCHANGED rolls
       ELSE LET rolled == BufferRoll(buf)
            IN  IF FwdRetainedIsNeedle(rolled, needle)
                THEN /\ buf' = rolled
                     /\ search_pos' = rolled.min
                     /\ rolls' = rolls \cup {rdr_pos}
                     /\ GoOn("fill")
                     /\ UNCHANGED <<stream_pos, wrapped>>
                ELSE \/ \* finder.rs:462 overflows
                        /\ Underflows(stream_pos, rolled.min)
                        /\ Panics
                        /\ UNCHANGED <<buf, search_pos, stream_pos, wrapped, rolls>>
                     \/ /\ buf' = rolled
                        /\ stream_pos' = WrappingSub(stream_pos, rolled.min)
                        /\ wrapped' = (wrapped \/ Underflows(stream_pos, rolled.min))
                        /\ search_pos' = 0
                        /\ rolls' = rolls \cup {rdr_pos}
                        /\ GoOn("fill")
       ELSE /\ GoOn("fill")
            /\ UNCHANGED <<buf, search_pos, stream_pos, wrapped, rolls>>
    /\ readany' = FALSE
    /\ UNCHANGED <<session, rdr_pos, faults, report_pos, seek_pos, amount>>

\* The sizes one rdr.read(dst) may return: 0 only at the end of the stream
\* or for an empty destination; otherwise min(dst.len(), remaining) from a
\* reader like Cursor, and any 1..min(dst.len(), remaining) from a reader
\* that may read short.
ReadSizes(free, remaining) ==
    IF Min(free, remaining) = 0 THEN {0}
    ELSE IF short_reads THEN 1..Min(free, remaining)
    ELSE {Min(free, remaining)}

\* FillAtZero forgetting the bytes read earlier in the call.
FillAtZero_Forgetful(rdany) == "Ok(false)"

\* buffer.rs:59-61  what Buffer::fill returns when a read returned 0 bytes.
FillAtZero(rdany) == IF rdany THEN "Ok(true)" ELSE "Ok(false)"

\* finder.rs:466-475 and 582-591  the match on the result of fill or
\* fill_exact: Err is returned as an item, Ok(false) ends the sequence,
\* Ok(true) goes round the loop again.
MatchFill(result) ==
    CASE result = "Err"       -> ReturnErr
      [] result = "Ok(false)" -> ReturnNone
      [] result = "Ok(true)"  -> GoOn("scan")

\* buffer.rs:58  what rdr.read(self.free_buffer()) may do: fail (-1), or
\* return a number of bytes read.
FillReads ==
    (IF faults > 0 THEN {-1} ELSE {})
        \cup ReadSizes(FwdFree(buf), Len(stream) - rdr_pos)

\* buffer.rs:57-67  how the iteration of the loop of Buffer::fill ends in
\* which the read did `bytes_read`: fill returns, or the loop goes round
\* again.
FillLoopEnd(bytes_read) ==
    IF bytes_read = -1 THEN "Err"
    ELSE IF bytes_read = 0 THEN FillAtZero(readany)
    ELSE IF buf.end + bytes_read >= buf.min THEN "Ok(true)"
    ELSE "again"

\* buffer.rs:57-67  what that iteration does to the buffer and the stream.
FillLoop(bytes_read) ==
    IF bytes_read = -1
    THEN \* rdr.read fails and `?` returns the error from fill
         /\ faults' = faults - 1
         /\ UNCHANGED <<buf, rdr_pos, readany>>
    ELSE /\ IF bytes_read = 0
            THEN UNCHANGED <<buf, rdr_pos, readany>>
            ELSE /\ buf' = FwdAppend(buf, Slice(stream, rdr_pos, rdr_pos + bytes_read))
                 /\ rdr_pos' = rdr_pos + bytes_read
                 /\ readany' = TRUE
         /\ UNCHANGED faults

\* buffer.rs:55-68 with finder.rs:466-475  one iteration of the loop of
\* Buffer::fill and, when fill returns, the match on its result.
FwdFill ==
    /\ mode = "fwd" /\ pc = "fill"
    /\ \E bytes_read \in FillReads :
          /\ FillLoop(bytes_read)
          /\ IF FillLoopEnd(bytes_read) = "again"
             THEN GoOn("fill")
             ELSE MatchFill(FillLoopEnd(bytes_read))
    /\ UNCHANGED <<session, wrapped, search_pos, stream_pos, report_pos,
                   seek_pos, amount, rolls>>

(* -------------------------- FindRevIter::next -------------------------- *)

\* finder.rs:535-541  the position returned for a match whose report_pos is
\* rp: needle_len is added for a stream longer than the window once
\* seek_pos is 0.
RevReturned(rp, needle_len, slen, capacity, spos) ==
    IF slen > capacity /\ spos = 0 THEN WrappingAdd(rp, needle_len) ELSE rp

\* finder.rs:486-548  search the unsearched part of the window from its
\* right end.
RevScan ==
    /\ mode = "rev" /\ pc = "scan"
    /\ LET mat == memmem_rfind(Slice(RevContent(buf), 0, buf.end - search_pos), needle)
           dist == buf.end - search_pos - mat
           rp == WrappingSub(stream_pos, dist)
           overflow == \/ Underflows(stream_pos, dist)
                       \/ /\ stream_len > Capacity(buf) /\ seek_pos = 0
                          /\ Overflows(rp, Len(needle))
       IN  IF search_pos < buf.end /\ mat >= 0
           THEN \/ \* finder.rs:491 or finder.rs:538 overflows
                   /\ overflow
                   /\ Panics
                   /\ UNCHANGED <<report_pos, stream_pos, search_pos, wrapped>>
                \/ /\ report_pos' = rp
                   /\ stream_pos' = rp
                   /\ search_pos' = search_pos + dist
                   /\ wrapped' = (wrapped \/ overflow)
                   /\ ReturnOk(RevReturned(rp, Len(needle), stream_len,
                                           Capacity(buf), seek_pos))
           ELSE /\ stream_pos' = IF search_pos < buf.end
                                 THEN SaturatingSub(stream_pos, buf.end - search_pos)
                                 ELSE stream_pos
                /\ search_pos' = IF search_pos < buf.end THEN buf.end ELSE search_pos
                /\ GoOn("roll")
                /\ UNCHANGED <<report_pos, wrapped>>
    /\ UNCHANGED <<session, rdr_pos, faults, buf, seek_pos, readany, amount, rolls>>

\* finder.rs:559-561  after roll_right, is the retained prefix the needle?
RevRetainedIsNeedle(rolled, ndl) ==
    Slice(RevContent(rolled), rolled.end - rolled.min, rolled.end) = ndl

\* finder.rs:550-568  stop when nothing is left to read, otherwise roll the
\* window to the right and decide where the next search starts.
RevRoll ==
    /\ mode = "rev" /\ pc = "roll"
    /\ IF seek_pos = 0
       THEN /\ ReturnNone
            /\ UNCHANGED <<buf, search_pos, stream_pos, wrapped>>
       ELSE IF RollsWindow(buf)
       THEN IF Underflows(buf.end, buf.min)
       THEN RollPanics
       ELSE LET rolled == BufferRollRight(buf)
            IN  IF RevRetainedIsNeedle(rolled, needle)
                THEN /\ buf' = rolled
                     /\ search_pos' = rolled.min
                     /\ GoOn("seek")
                     /\ UNCHANGED <<stream_pos, wrapped>>
                ELSE \/ \* finder.rs:565 overflows
                        /\ Overflows(stream_pos, rolled.min)
                        /\ Panics
                        /\ UNCHANGED <<buf, search_pos, stream_pos, wrapped>>
                     \/ /\ buf' = rolled
                        /\ stream_pos' = WrappingAdd(stream_pos, rolled.min)
                        /\ wrapped' = (wrapped \/ Overflows(stream_pos, rolled.min))
                        /\ search_pos' = 0
                        /\ GoOn("seek")
       ELSE /\ GoOn("seek")
            /\ UNCHANGED <<buf, search_pos, stream_pos, wrapped>>
    /\ UNCHANGED <<session, rdr_pos, faults, report_pos, seek_pos, readany,
                   amount, rolls>>

\* finder.rs:570-577  the size of the next chunk.
RevAmount(spos, free_buffer_len) ==
    IF spos > free_buffer_len THEN free_buffer_len ELSE spos

\* finder.rs:570-577  where the next chunk begins.
RevNextSeekPos(spos, skpos, free_buffer_len) ==
    IF spos > free_buffer_len THEN WrappingSub(skpos, free_buffer_len) ELSE 0

\* RevSeekFrom leaving the cursor of the stream where it is.
RevSeekFrom_Current(skpos, cursor) == cursor

\* finder.rs:578  where the stream is read next: SeekFrom::Start(seek_pos),
\* wherever its cursor is.
RevSeekFrom(skpos, cursor) == skpos

\* finder.rs:570-581  choose the size of the next chunk, move seek_pos and
\* seek the stream there.
RevSeek ==
    /\ mode = "rev" /\ pc = "seek"
    /\ LET free_buffer_len == RevFree(buf)
           overflow == /\ stream_pos > free_buffer_len
                       /\ Underflows(seek_pos, free_buffer_len)
       IN  \/ \* finder.rs:572 overflows
              /\ overflow
              /\ Panics
              /\ UNCHANGED <<seek_pos, amount, rdr_pos, faults, wrapped>>
           \/ /\ seek_pos' = RevNextSeekPos(stream_pos, seek_pos, free_buffer_len)
              /\ amount' = RevAmount(stream_pos, free_buffer_len)
              /\ wrapped' = (wrapped \/ overflow)
              /\ \/ /\ rdr_pos' = RevSeekFrom(seek_pos', rdr_pos)
                    /\ GoOn("fill_exact")
                    /\ UNCHANGED faults
                 \/ \* rdr.seek fails
                    /\ faults > 0
                    /\ faults' = faults - 1
                    /\ ReturnErr
                    /\ UNCHANGED rdr_pos
    /\ UNCHANGED <<session, buf, search_pos, stream_pos, report_pos, readany, rolls>>

\* FillExactResult without the special case for UnexpectedEof.
FillExactResult_EofIsErr(outcome) ==
    CASE outcome = "Ok" -> "Ok(true)"
      [] OTHER          -> "Err"

\* buffer.rs:157-168  what fill_exact makes of the outcome of read_exact.
FillExactResult(outcome) ==
    CASE outcome = "Ok"            -> "Ok(true)"
      [] outcome = "UnexpectedEof" -> "Ok(false)"
      [] OTHER                     -> "Err"

\* buffer.rs:157-158  what rdr.read_exact may do with `amount` bytes asked
\* for: fail with an error that is not UnexpectedEof, succeed, or meet the
\* end of the stream.
ReadExactOutcomes ==
    (IF faults > 0 THEN {"Other"} ELSE {})
        \cup (IF Max(0, Len(stream) - rdr_pos) >= amount
              THEN {"Ok"} ELSE {"UnexpectedEof"})

\* buffer.rs:151-169  what BufferRev::fill_exact(rdr, amount) does to the
\* buffer and the stream when read_exact ends in `outcome`.
FillExact(outcome) ==
    LET available == Max(0, Len(stream) - rdr_pos)
    IN  CASE outcome = "Other" ->
               /\ faults' = faults - 1
               /\ UNCHANGED <<buf, rdr_pos>>
          [] outcome = "Ok" ->
               /\ buf' = IF FillExactResult("Ok") = "Ok(true)"
                         THEN RevPrepend(buf, Slice(stream, rdr_pos, rdr_pos + amount))
                         ELSE buf
               /\ rdr_pos' = rdr_pos + amount
               /\ UNCHANGED faults
          [] outcome = "UnexpectedEof" ->
               \* what the destination holds afterwards is unspecified
               /\ buf' \in {buf, RevPartial(buf, amount, Slice(stream, rdr_pos, rdr_pos + available))}
               /\ rdr_pos' = Max(rdr_pos, Len(stream))
               /\ UNCHANGED faults

\* buffer.rs:151-169 with finder.rs:582-591  read exactly `amount` bytes in
\* front of the content and match on the result.
RevFillExact ==
    /\ mode = "rev" /\ pc = "fill_exact"
    /\ \E outcome \in ReadExactOutcomes :
          FillExact(outcome) /\ MatchFill(FillExactResult(outcome))
    /\ UNCHANGED <<session, wrapped, search_pos, stream_pos, report_pos,
                   seek_pos, readany, amount, rolls>>

(* --------------------------- specification ----------------------------- *)

Next ==
    \/ Call
    \/ FwdScan
    \/ FwdRoll
    \/ FwdFill
    \/ RevScan
    \/ RevRoll
    \/ RevSeek
    \/ RevFillExact

Spec == Init /\ [][Next]_vars

(* ------------------------- reference and history ----------------------- *)

\* The offsets at which ndl occurs in s.
Occurrences(ndl, s) ==
    {i \in 0..(Len(s) - Len(ndl)) : Slice(s, i, i + Len(ndl)) = ndl}

\* Left-to-right non-overlapping in-memory matching from offset i on: find
\* the first occurrence, resume immediately after it (memmem::find_iter of
\* the tests in tests/quicktest.rs).  For a needle of at least one byte.
RECURSIVE RefMatchesFrom(_, _, _)
RefMatchesFrom(ndl, s, i) ==
    IF i + Len(ndl) > Len(s) THEN <<>>
    ELSE IF Slice(s, i, i + Len(ndl)) = ndl
         THEN <<i>> \o RefMatchesFrom(ndl, s, i + Len(ndl))
         ELSE RefMatchesFrom(ndl, s, i + 1)

RefMatches(ndl, s) == RefMatchesFrom(ndl, s, 0)

Reverse(sq) == [i \in 1..Len(sq) |-> sq[Len(sq) + 1 - i]]

\* No stream operation of the session has failed so far.
ErrorFree == errs = 0

\* The session has just been collected: the first None has been returned
\* and nothing was yielded after it.
Collected == nones = 1 /\ last = "none"

\* Exactly one next() call has finished (what find and rfind return).
FirstCallDone == Len(items) + errs + nones = 1

(* ------------------------------- claims -------------------------------- *)

\* C1: for a non-empty needle and an error-free stream read from its
\* start, the positions find_iter yields until None are exactly the
\* left-to-right non-overlapping reference matches.
C1_ForwardEqualsReference ==
    (mode = "fwd" /\ needle # <<>> /\ ErrorFree /\ Collected)
        => items = RefMatches(needle, stream)

\* C2: for a non-empty needle and an error-free seekable stream, the
\* positions rfind_iter yields until None are the reverse of the reference
\* match list, and the session does not panic on the way.
C2_BackwardEqualsReversedReference ==
    (mode = "rev" /\ needle # <<>> /\ ErrorFree)
        => /\ pc # "panic"
           /\ Collected => items = Reverse(RefMatches(needle, stream))

\* The least and the greatest element of a non-empty set of offsets.
Least(S) == CHOOSE x \in S : \A y \in S : x <= y
Greatest(S) == CHOOSE x \in S : \A y \in S : x >= y

\* C3: find, the first next() of a forward searcher: for a non-empty needle
\* and an error-free stream it returns Some(Ok(p)) with p the smallest
\* offset where the needle occurs, and None when the needle does not occur.
C3_FindReturnsFirstOccurrence ==
    (mode = "fwd" /\ needle # <<>> /\ ErrorFree /\ FirstCallDone)
        => IF Occurrences(needle, stream) = {}
           THEN items = <<>>
           ELSE items = <<Least(Occurrences(needle, stream))>>

\* C3 witness: find returned the first occurrence after the window had
\* rolled, for a stream that holds a later occurrence too.
C3_Witness ==
    /\ mode = "fwd" /\ needle # <<>> /\ ErrorFree /\ FirstCallDone
    /\ rolls # {}
    /\ Cardinality(Occurrences(needle, stream)) >= 2
    /\ items = <<Least(Occurrences(needle, stream))>>
    /\ items[1] >= 1

\* C4: rfind, the first next() of a backward searcher: for a non-empty
\* needle and an error-free stream of any length it returns Some(Ok(p))
\* with p the greatest offset where the needle occurs, and None when the
\* needle does not occur.
C4_RfindReturnsLastOccurrence ==
    (mode = "rev" /\ needle # <<>> /\ ErrorFree /\ Len(items) + nones <= 1)
        => /\ pc # "panic"
           /\ FirstCallDone =>
                IF Occurrences(needle, stream) = {}
                THEN items = <<>>
                ELSE items = <<Greatest(Occurrences(needle, stream))>>

\* C5: two positions a forward searcher yields one after the other are at
\* least needle.len() apart.
C5_ForwardMatchesNeverOverlap ==
    mode = "fwd" =>
        \A i \in 1..(Len(items) - 1) : items[i + 1] >= items[i] + Len(needle)

\* The offsets in sq.
RangeOf(sq) == {sq[i] : i \in 1..Len(sq)}

\* How often p is among the positions yielded.
TimesYielded(p) == Cardinality({i \in 1..Len(items) : items[i] = p})

\* C6: an occurrence of the reference match list that begins in bytes read
\* before a roll and ends in bytes read after it is yielded exactly once by
\* a collected error-free forward session.
C6_BoundaryMatchReportedOnce ==
    (mode = "fwd" /\ needle # <<>> /\ ErrorFree /\ Collected)
        => \A p \in RangeOf(RefMatches(needle, stream)) :
              (\E b \in rolls : p < b /\ b < p + Len(needle))
                  => TimesYielded(p) = 1

\* C7: once a searcher (for a non-empty needle) has yielded an Err item it
\* yields nothing more, neither a position nor an error, and every next()
\* call that finishes after it returns None.
C7_ErrorEndsSequence ==
    [][(needle # <<>> /\ errs > 0)
          => /\ items' = items
             /\ errs' = errs
             /\ (pc # "idle" /\ pc' = "idle") => last' = "none"]_vars

\* C8: the end of the stream is never reported as an error: an Err item is
\* yielded only by a step in which a stream operation failed; a forward
\* refill that read nothing and a backward read_exact that fell short make
\* next() return None.
C8_EofIsNotAnError ==
    [][/\ errs' > errs => faults' < faults
       /\ (mode = "fwd" /\ pc = "fill" /\ ~readany /\ rdr_pos >= Len(stream)
             /\ faults' = faults) => (last' = "none" /\ nones' = nones + 1)
       /\ (mode = "rev" /\ pc = "fill_exact" /\ rdr_pos + amount > Len(stream)
             /\ faults' = faults) => (last' = "none" /\ nones' = nones + 1)]_vars

\* C8 witness: a backward next() returned None because read_exact fell
\* short, with part of the stream not yet read into the window and no
\* stream operation having failed.
C8_Witness ==
    /\ mode = "rev" /\ pc = "idle" /\ last = "none"
    /\ seek_pos # 0
    /\ errs = 0 /\ faults = MaxFaults
    /\ rdr_pos >= Len(stream)

\* C9: a zero-length needle never yields a position: every item of such a
\* session is an error.
C9_EmptyNeedleIsAnError ==
    needle = <<>> => items = <<>>

\* C10: the positions a forward searcher yields are strictly increasing.
C10_ForwardStrictlyIncreasing ==
    mode = "fwd" =>
        \A i \in 1..(Len(items) - 1) : items[i + 1] > items[i]

\* C11: the positions a backward searcher (for a non-empty needle) yields
\* are strictly decreasing.
C11_BackwardStrictlyDecreasing ==
    (mode = "rev" /\ needle # <<>>) =>
        \A i \in 1..(Len(items) - 1) : items[i + 1] < items[i]

(* ------------------------- a second session ---------------------------- *)

\* finder.rs:316-341 and 345-386  after a session that ended without an
\* error the caller rewinds the stream and builds a fresh searcher for the
\* same needle (find_iter / rfind_iter once more); FindRevIter::new seeks
\* to the end again.  The model follows one such second session.
Restart ==
    /\ pc = "idle" /\ last = "none" /\ nones = 1 /\ errs = 0
    /\ prev = NoSession
    /\ prev' = items
    /\ rdr_pos' = IF mode = "fwd" THEN 0 ELSE Len(stream)
    /\ buf' = BufferNew(Len(needle))
    /\ search_pos' = 0
    /\ stream_pos' = IF mode = "fwd" THEN 0 ELSE Len(stream)
    /\ report_pos' = 0
    /\ seek_pos' = IF mode = "fwd" THEN 0 ELSE Len(stream)
    /\ stream_len' = IF mode = "fwd" THEN 0 ELSE Len(stream)
    /\ readany' = FALSE
    /\ amount' = 0
    /\ items' = <<>>
    /\ last' = "start"
    /\ nones' = 0
    /\ rolls' = {}
    /\ UNCHANGED <<mode, needle, stream, end_pos, short_reads, faults, wrapped,
                   errs, pc, entry>>

NextRerun ==
    \/ Call
    \/ FwdScan
    \/ FwdRoll
    \/ FwdFill
    \/ RevScan
    \/ RevRoll
    \/ RevSeek
    \/ RevFillExact
    \/ Restart

SpecRerun == Init /\ [][NextRerun]_vars

\* C12: a second, fresh session over the unchanged, rewound stream with the
\* same needle yields, when no stream operation fails, the same sequence of
\* positions as the session before it.
C12_RerunYieldsSameSequence ==
    (prev # NoSession /\ nones = 1 /\ last = "none" /\ errs = 0)
        => items = prev

\* C13: in every state of a session the window holds at most its capacity,
\* and its capacity and its min are the ones it was constructed with.
C13_WindowWithinCapacity ==
    /\ buf.end <= Capacity(buf)
    /\ Capacity(buf) = Capacity(BufferNew(Len(needle)))
    /\ buf.min = BufferNew(Len(needle)).min

\* C13 witness: a refill has filled the window to its capacity, in a
\* session over a stream that is longer than the window.
C13_Witness ==
    /\ pc = "scan"
    /\ buf.end = Capacity(buf)
    /\ Len(stream) > Capacity(buf)

(* ---------------------------- construction ----------------------------- *)

\* FitsUsize with the assertion left out.
FitsUsize_Unchecked(len) == TRUE

\* finder.rs:350 and 372  assert!(stream_len <= usize::MAX as u64)
FitsUsize(len) == len <= UsizeMod - 1

\* finder.rs:351 and 373  stream_len as usize
AsUsize(len) == len % UsizeMod

\* The stream lengths of the specification of construction: from 0 on, and
\* around the largest usize.
NewLengths ==
    (0..MaxNewSlack) \cup ((UsizeMod - 1 - MaxNewSlack)..(UsizeMod - 1 + MaxNewSlack))

\* Before find_iter / rfind_iter is called there is a needle and a stream
\* and no searcher.  Construction reads no byte of the stream, so this
\* specification keeps only its length, end_pos.
InitNew ==
    /\ \/ mode = "fwd" /\ needle \in SeqsUpTo(MaxNeedleLen)
       \/ mode = "rev" /\ needle \in SeqsUpTo(MaxRevNeedleLen)
    /\ stream = <<>>
    /\ end_pos \in NewLengths
    /\ prev = NoSession
    /\ short_reads = FALSE
    /\ rdr_pos = 0
    /\ faults = MaxFaults
    /\ wrapped = FALSE
    /\ buf = [buf |-> <<>>, min |-> 0, end |-> 0]
    /\ search_pos = 0
    /\ stream_pos = 0
    /\ report_pos = 0
    /\ seek_pos = 0
    /\ stream_len = 0
    /\ pc = "new"
    /\ readany = FALSE
    /\ amount = 0
    /\ items = <<>>
    /\ errs = 0
    /\ last = "start"
    /\ nones = 0
    /\ rolls = {}
    /\ entry = NoCall

\* finder.rs:316-341  FindIter::new / FindIter::new_with_needle
FwdNew ==
    /\ mode = "fwd" /\ pc = "new"
    /\ buf' = BufferNew(Len(needle))
    /\ search_pos' = 0
    /\ stream_pos' = 0
    /\ report_pos' = 0
    /\ pc' = "idle"
    /\ UNCHANGED <<session, rdr_pos, faults, wrapped, seek_pos, readany, amount,
                   items, errs, last, nones, rolls>>

\* finder.rs:345-386  FindRevIter::new / FindRevIter::new_with_needle: seek
\* to the end, check that the length is a usize, build the searcher.  When
\* the seek fails new returns the error, when the assertion fails it
\* panics; no searcher exists then.
RevNew ==
    /\ mode = "rev" /\ pc = "new"
    /\ \/ /\ faults > 0
          /\ faults' = faults - 1
          /\ pc' = "new_err"
          /\ UNCHANGED <<rdr_pos, buf, search_pos, stream_pos, report_pos,
                         seek_pos, stream_len>>
       \/ /\ rdr_pos' = end_pos
          /\ IF FitsUsize(end_pos)
             THEN /\ buf' = BufferNew(Len(needle))
                  /\ search_pos' = 0
                  /\ stream_pos' = AsUsize(end_pos)
                  /\ report_pos' = 0
                  /\ seek_pos' = AsUsize(end_pos)
                  /\ stream_len' = AsUsize(end_pos)
                  /\ pc' = "idle"
             ELSE /\ pc' = "panic"
                  /\ UNCHANGED <<buf, search_pos, stream_pos, report_pos,
                                 seek_pos, stream_len>>
          /\ UNCHANGED faults
    /\ UNCHANGED <<mode, needle, stream, end_pos, prev, short_reads, wrapped,
                   readany, amount, items, errs, last, nones, rolls, entry>>

NextNew ==
    \/ FwdNew
    \/ RevNew

SpecNew == InitNew /\ [][NextNew]_vars

\* C14: the window of a newly built forward or backward searcher for a
\* needle of n bytes holds nothing and has a capacity of max(n, 1) * 8
\* bytes, or the default capacity if that is more.
C14_NewWindowCapacity ==
    pc = "idle" =>
        LET n == Len(needle)
            least == IF n >= 1 THEN n * 8 ELSE 8
        IN  /\ buf.end = 0
            /\ Capacity(buf) = IF least >= DEFAULT_BUFFER_CAPACITY
                               THEN least ELSE DEFAULT_BUFFER_CAPACITY

\* C14 witness: searchers have been built whose window has the default
\* capacity, and searchers whose window is sized by the needle.
C14_Witness ==
    /\ pc = "idle"
    /\ buf.end = 0
    /\ \/ Len(needle) = 1 /\ Capacity(buf) = DEFAULT_BUFFER_CAPACITY
                          /\ Capacity(buf) > Len(needle) * 8
       \/ Len(needle) >= 2 /\ Capacity(buf) = Len(needle) * 8
                           /\ Capacity(buf) > DEFAULT_BUFFER_CAPACITY

\* C16: a backward searcher is built only for a stream whose length is a
\* usize, and then stream_len, stream_pos and seek_pos are that length;
\* for a longer stream construction ends in the failed assertion (or in
\* the error of the seek) and builds nothing.
C16_NewChecksStreamLength ==
    mode = "rev" =>
        /\ pc = "idle" => /\ end_pos <= UsizeMod - 1
                          /\ stream_len = end_pos
                          /\ stream_pos = end_pos
                          /\ seek_pos = end_pos
        /\ (pc # "new" /\ end_pos > UsizeMod - 1) =>
               /\ pc \in {"panic", "new_err"}
               /\ buf.buf = <<>>

\* C16 witness: rfind_iter over a stream one byte longer than the largest
\* usize has ended in the failed assertion.
C16_Witness ==
    /\ mode = "rev"
    /\ end_pos = UsizeMod
    /\ rdr_pos = end_pos
    /\ pc = "panic"

(* ------------------------------ seek_to -------------------------------- *)

\* finder.rs:429-431  FindRevIter::seek_to(pos), called between two next()
\* calls: rdr.seek(SeekFrom::Start(pos)), whose error goes back to the
\* caller of seek_to.  The caller calls it in the second of two sessions
\* over a stream, so that the sessions can be compared.
SeekTo ==
    /\ mode = "rev" /\ pc = "idle"
    /\ prev # NoSession
    /\ \E pos \in 0..MaxSeekTo :
          \/ /\ rdr_pos' = pos
             /\ UNCHANGED faults
          \/ /\ faults > 0
             /\ faults' = faults - 1
             /\ UNCHANGED rdr_pos
    /\ UNCHANGED <<session, wrapped, buf, search_pos, stream_pos, report_pos,
                   seek_pos, pc, readany, amount, items, errs, last, nones, rolls>>

\* Backward sessions whose caller also calls seek_to.
InitSeekTo == Init /\ mode = "rev"

NextSeekTo ==
    \/ Call
    \/ RevScan
    \/ RevRoll
    \/ RevSeek
    \/ RevFillExact
    \/ Restart
    \/ SeekTo

SpecSeekTo == InitSeekTo /\ [][NextSeekTo]_vars

\* sq is the beginning of full.
IsPrefix(sq, full) == Len(sq) <= Len(full) /\ sq = SubSeq(full, 1, Len(sq))

\* C15: a step of seek_to (the only step from idle to idle within one
\* session) puts the cursor of the stream at pos and leaves the window,
\* search_pos, stream_pos, seek_pos and stream_len as they are; and the
\* error-free session in which seek_to is called yields the positions of
\* the session before it, in which it was not called.
C15_SeekToMovesOnlyTheCursor ==
    /\ [][(pc = "idle" /\ pc' = "idle" /\ prev' = prev) =>
            /\ faults' = faults => rdr_pos' \in 0..MaxSeekTo
            /\ UNCHANGED <<buf, search_pos, stream_pos, report_pos, seek_pos,
                           stream_len, items, errs, nones>>]_vars
    /\ []((prev # NoSession /\ errs = 0 /\ nones = 0) => IsPrefix(items, prev))
    /\ []((prev # NoSession /\ errs = 0 /\ nones = 1 /\ last = "none") => items = prev)

\* C15 witness: in a session that has yielded a position, seek_to has put
\* the cursor at the start of the stream, where neither construction nor
\* next() left it, and the following next() has yielded one more position.
C15_Witness ==
    /\ mode = "rev" /\ prev # NoSession /\ errs = 0
    /\ pc = "idle" /\ last = "ok"
    /\ Len(items) >= 2
    /\ seek_pos > 0
    /\ rdr_pos = 0

\* C18: in a forward session (for a non-empty needle), when the bytes a
\* roll is about to retain are the needle, the occurrence they form, which
\* begins min bytes before the end of what has been read, has already been
\* yielded.
C18_RetainedNeedleWasYielded ==
    (/\ mode = "fwd" /\ needle # <<>>
     /\ pc = "roll" /\ buf.end >= buf.min
     /\ FwdRetainedIsNeedle(BufferRoll(buf), needle))
        => (rdr_pos - buf.min) \in RangeOf(items)

\* C19: in a backward session (for a non-empty needle, without a failed
\* stream operation and without an arithmetic overflow) over a stream
\* longer than the window, every position yielded once the final chunk has
\* been read (seek_pos = 0) is an offset at which the needle occurs.
C19_FinalChunkPositionsAreOccurrences ==
    [][(/\ mode = "rev" /\ needle # <<>> /\ errs = 0 /\ ~wrapped'
        /\ pc = "scan"
        /\ stream_len > Capacity(buf) /\ seek_pos = 0
        /\ Len(items') > Len(items))
          => items'[Len(items')] \in Occurrences(needle, stream)]_vars

\* C20: in a backward session (for a non-empty needle, without a failed
\* stream operation and without an arithmetic overflow) the step that
\* prepares a refill takes a chunk of min(free capacity, seek_pos) bytes,
\* lowers seek_pos by the chunk and puts the cursor of the stream there, so
\* that the chunk is the unread bytes just below the old seek_pos.
C20_ChunkIsTheUnreadBytesBelowSeekPos ==
    [][(/\ mode = "rev" /\ needle # <<>> /\ errs = 0 /\ ~wrapped'
        /\ pc = "seek" /\ pc' = "fill_exact")
          => /\ amount' = Min(RevFree(buf), seek_pos)
             /\ seek_pos' = seek_pos - amount'
             /\ rdr_pos' = seek_pos']_vars

\* C21: in every state of a backward session seek_pos is at most
\* stream_len, and no step of the session raises seek_pos.
C21_SeekPosBoundedAndNonIncreasing ==
    /\ [](mode = "rev" => seek_pos <= stream_len)
    /\ [][mode = "rev" => seek_pos' <= seek_pos]_vars

\* C22: in every state of a forward session search_pos is at most the
\* length of the window content: after a match, after an unmatched
\* remainder has been consumed, and after a roll.
C22_SearchPosWithinContent ==
    mode = "fwd" => search_pos <= buf.end

\* C22 witness: a forward session that has yielded a position has rolled
\* its window, found the needle in the retained bytes and put search_pos at
\* the end of the content.
C22_Witness ==
    /\ mode = "fwd" /\ needle # <<>>
    /\ pc = "fill" /\ rolls # {}
    /\ items # <<>>
    /\ search_pos = buf.min /\ search_pos = buf.end

\* C23: once next() of a forward or backward searcher has returned None,
\* every later next() call, as long as no stream operation fails, returns
\* None again: no position and no error is yielded and nothing panics.
C23_ExhaustedIsTerminal ==
    [][(nones >= 1 /\ faults' = faults)
          => /\ items' = items
             /\ errs' = errs
             /\ pc' # "panic"
             /\ (pc # "idle" /\ pc' = "idle") => last' = "none"]_vars

\* C23 witness: a forward session that had yielded a position and rolled
\* its window returned None, was called again and returned None again.
C23_Witness ==
    /\ mode = "fwd" /\ needle # <<>> /\ errs = 0
    /\ items # <<>> /\ rolls # {}
    /\ pc = "idle" /\ last = "none" /\ nones = 2

(* ----------------------------- termination ----------------------------- *)

\* Sessions for a non-empty needle over a stream none of whose operations
\* fails.
InitNoFaults ==
    /\ InitFwd \/ InitRev
    /\ needle # <<>>
    /\ end_pos = Len(stream)
    /\ prev = NoSession
    /\ faults = 0
    /\ wrapped = FALSE
    /\ pc = "idle"
    /\ readany = FALSE
    /\ amount = 0
    /\ items = <<>>
    /\ errs = 0
    /\ last = "start"
    /\ nones = 0
    /\ rolls = {}
    /\ entry = NoCall

\* The caller calls next() whatever the number of positions it has got; it
\* stops after 1 + MaxCallsAfterNone calls that returned None.
CallAgain ==
    /\ pc = "idle"
    /\ nones <= MaxCallsAfterNone
    /\ GoOn("scan")
    /\ UNCHANGED <<session, rdr_pos, faults, wrapped, buf, search_pos,
                   stream_pos, report_pos, seek_pos, readany, amount, rolls>>

NextNoFaults ==
    \/ CallAgain
    \/ FwdScan
    \/ FwdRoll
    \/ FwdFill
    \/ RevScan
    \/ RevRoll
    \/ RevSeek
    \/ RevFillExact

\* The caller goes on calling and a next() that has been called goes on
\* running: a step that can be taken is taken.
SpecNoFaults == InitNoFaults /\ [][NextNoFaults]_vars /\ WF_vars(NextNoFaults)

\* C24: over a finite stream none of whose operations fails, the repeated
\* next() calls of a forward or backward searcher for a non-empty needle
\* lead to a call that returns None.
C24_EventuallyNone ==
    <>(nones >= 1)

\* C25: in a session over a stream that is not empty, shorter than the
\* needle and none of whose operations fails, find_iter and rfind_iter
\* yield nothing: no position, no error and no panic, every finished next()
\* has returned None, the window holds fewer than min bytes and has never
\* been rolled (a roll leaves min bytes in it).
C25_StreamShorterThanNeedle ==
    (0 < Len(stream) /\ Len(stream) < Len(needle) /\ faults = MaxFaults)
        => /\ items = <<>>
           /\ errs = 0
           /\ pc # "panic"
           /\ (pc = "idle" /\ last # "start") => last = "none"
           /\ buf.end < buf.min
           /\ rolls = {}

\* C25 witness: find_iter for a needle of 3 bytes has read the 2 bytes of
\* the stream into its window, searched them and returned None.
C25_Witness ==
    /\ mode = "fwd" /\ Len(needle) = 3 /\ Len(stream) = 2
    /\ faults = MaxFaults
    /\ buf.end = 2 /\ search_pos = 2
    /\ pc = "idle" /\ last = "none"

(* ------------------ Buffer and BufferRev on their own ------------------ *)

\* Number of method calls a direct caller of a buffer makes.
MaxBufferCalls == 2
\* Largest amount a direct caller of BufferRev passes to fill_exact; its
\* streams are up to one byte longer, so that a chunk of every size can be
\* read at more than one offset and can fall short at every offset.
MaxChunk == 2

\* A Buffer or a BufferRev in the hands of a direct caller, as in
\* test_buffer and test_buffer_rev: Buffer::new(n) / BufferRev::new(n) and a
\* stream at its start.  Only the length of the needle counts.
InitBuffer ==
    /\ \/ /\ mode = "fwd"
          /\ needle \in {Zeros(n) : n \in 0..MaxNeedleLen}
          /\ \/ /\ stream \in SeqsUpTo(MaxStreamLen)
                /\ short_reads = TRUE
             \/ /\ stream \in LongStreams(Capacity(BufferNew(Len(needle))))
                /\ short_reads = FALSE
       \/ /\ mode = "rev"
          /\ needle \in {Zeros(n) : n \in 0..MaxRevNeedleLen}
          /\ stream \in SeqsUpTo(MaxChunk + 1)
          /\ short_reads = FALSE
    /\ end_pos = Len(stream)
    /\ prev = NoSession
    /\ rdr_pos = 0
    /\ faults = MaxFaults
    /\ wrapped = FALSE
    /\ buf = BufferNew(Len(needle))
    /\ search_pos = 0
    /\ stream_pos = 0
    /\ report_pos = 0
    /\ seek_pos = 0
    /\ stream_len = 0
    /\ pc = "idle"
    /\ readany = FALSE
    /\ amount = 0
    /\ items = <<>>
    /\ errs = 0
    /\ last = "start"
    /\ nones = 0
    /\ rolls = {}
    /\ entry = [op |-> "new", buf |-> buf, pos |-> 0, nth |-> 0]

\* What a direct caller leaves alone.
untouched == <<mode, needle, stream, end_pos, prev, short_reads, stream_len,
               wrapped, search_pos, stream_pos, report_pos, seek_pos,
               items, errs, nones, rolls>>

\* The caller calls method op with the stream at pos.
Enter(op, pos) ==
    /\ pc = "idle"
    /\ entry.nth < MaxBufferCalls
    /\ entry' = [op |-> op, buf |-> buf, pos |-> pos, nth |-> entry.nth + 1]

\* The method returns r to the caller.
BufReturn(r) ==
    /\ last' = r
    /\ pc' = "idle"
    /\ UNCHANGED <<items, errs, nones>>

\* buffer.rs:55-56  buf.fill(&mut rdr) is called: readany = false.
CallFill ==
    /\ mode = "fwd"
    /\ Enter("fill", rdr_pos)
    /\ readany' = FALSE
    /\ pc' = "fill"
    /\ UNCHANGED <<untouched, rdr_pos, faults, buf, amount, last>>

\* buffer.rs:57-67  one iteration of the loop of Buffer::fill.
BufFill ==
    /\ mode = "fwd" /\ pc = "fill"
    /\ \E bytes_read \in FillReads :
          /\ FillLoop(bytes_read)
          /\ IF FillLoopEnd(bytes_read) = "again"
             THEN GoOn("fill")
             ELSE BufReturn(FillLoopEnd(bytes_read))
    /\ UNCHANGED <<session, wrapped, search_pos, stream_pos, report_pos,
                   seek_pos, amount, rolls>>

\* buffer.rs:75-94  buf.roll(): with fewer than min bytes checked_sub gives
\* None and expect panics.
CallRoll ==
    /\ mode = "fwd"
    /\ Enter("roll", rdr_pos)
    /\ IF buf.end >= buf.min
       THEN /\ buf' = BufferRoll(buf)
            /\ last' = "()"
            /\ UNCHANGED pc
       ELSE /\ pc' = "panic"
            /\ UNCHANGED <<buf, last>>
    /\ UNCHANGED <<untouched, rdr_pos, faults, readany, amount>>

\* buffer.rs:226-227  the caller seeks the stream to pos and calls
\* buf.fill_exact(&mut rdr, amt) with an amount that fits the free part.
CallFillExact ==
    /\ mode = "rev"
    /\ \E pos \in 0..Len(stream), amt \in 0..Min(RevFree(buf), MaxChunk) :
          /\ Enter("fill_exact", pos)
          /\ rdr_pos' = pos
          /\ amount' = amt
    /\ pc' = "fill_exact"
    /\ UNCHANGED <<untouched, faults, buf, readany, last>>

\* buffer.rs:151-169  BufferRev::fill_exact.
BufFillExact ==
    /\ mode = "rev" /\ pc = "fill_exact"
    /\ \E outcome \in ReadExactOutcomes :
          FillExact(outcome) /\ BufReturn(FillExactResult(outcome))
    /\ UNCHANGED <<session, wrapped, search_pos, stream_pos, report_pos,
                   seek_pos, readany, amount, rolls>>

\* buffer.rs:177-196  buf.roll_right(): with fewer than min bytes
\* checked_sub gives None and expect panics.
CallRollRight ==
    /\ mode = "rev"
    /\ Enter("roll_right", rdr_pos)
    /\ IF buf.end >= buf.min
       THEN /\ buf' = BufferRollRight(buf)
            /\ last' = "()"
            /\ UNCHANGED pc
       ELSE /\ pc' = "panic"
            /\ UNCHANGED <<buf, last>>
    /\ UNCHANGED <<untouched, rdr_pos, faults, readany, amount>>

NextBuffer ==
    \/ CallFill
    \/ BufFill
    \/ CallRoll
    \/ CallFillExact
    \/ BufFillExact
    \/ CallRollRight

SpecBuffer == InitBuffer /\ [][NextBuffer]_vars

\* C26: Buffer::fill returns Ok(false) exactly when the stream supplied no
\* byte during the call and Ok(true) otherwise; the content is the content
\* at the call followed by the bytes read, so len() has grown by their
\* number; and after Ok(true) the buffer holds at least min bytes or the
\* stream has nothing more to give.
C26_FillResult ==
    entry.op = "fill" =>
        LET read == rdr_pos - entry.pos
        IN  /\ buf.end = entry.buf.end + read
            /\ FwdContent(buf) = FwdContent(entry.buf) \o Slice(stream, entry.pos, rdr_pos)
            /\ pc = "idle" =>
                 /\ last \in {"Ok(true)", "Ok(false)", "Err"}
                 /\ last = "Ok(false)" => read = 0
                 /\ last = "Ok(true)" => /\ read > 0
                                         /\ \/ buf.end >= buf.min
                                            \/ rdr_pos = Len(stream)
                 /\ last = "Err" => faults < MaxFaults

\* C26 witness: a fill that found content in the buffer read fewer bytes
\* than min asks for, met the end of the stream and returned Ok(true).
C26_Witness ==
    /\ entry.op = "fill" /\ pc = "idle" /\ last = "Ok(true)"
    /\ entry.nth = 2 /\ entry.buf.end > 0
    /\ rdr_pos > entry.pos
    /\ buf.end < buf.min
    /\ rdr_pos = Len(stream)

\* C27: Buffer::roll, called with at least min bytes in the buffer, leaves
\* as content exactly the last min bytes of the content at the call, in
\* their order, and len() = min.
C27_RollKeepsSuffix ==
    (entry.op = "roll" /\ pc = "idle") =>
        /\ buf.end = buf.min
        /\ FwdContent(buf) = Slice(FwdContent(entry.buf),
                                   entry.buf.end - buf.min, entry.buf.end)

\* C27 witness: a roll of a buffer that held more than min bytes, whose
\* last min bytes were not its first min bytes.
C27_Witness ==
    /\ entry.op = "roll" /\ pc = "idle"
    /\ entry.buf.end > buf.min
    /\ FwdContent(buf) # Slice(FwdContent(entry.buf), 0, buf.min)

\* C28: BufferRev::roll_right, called with at least min bytes in the
\* buffer, leaves as content exactly the first min bytes of the content at
\* the call, in their order, at the end of the storage, and len() = min.
C28_RollRightKeepsPrefix ==
    (entry.op = "roll_right" /\ pc = "idle") =>
        /\ buf.end = buf.min
        /\ Slice(buf.buf, Capacity(buf) - buf.min, Capacity(buf))
             = Slice(RevContent(entry.buf), 0, buf.min)
        /\ RevContent(buf) = Slice(RevContent(entry.buf), 0, buf.min)

\* C28 witness: a roll_right of a buffer that held more than min bytes,
\* whose first min bytes were not its last min bytes.
C28_Witness ==
    /\ entry.op = "roll_right" /\ pc = "idle"
    /\ entry.buf.end > buf.min
    /\ RevContent(buf) # Slice(RevContent(entry.buf),
                               entry.buf.end - buf.min, entry.buf.end)

C30_ForwardPositionsAreOccurrences ==
    (mode = "fwd" /\ needle # <<>>) =>
        \A i \in 1..Len(items) :
            /\ items[i] \in Occurrences(needle, stream)
            /\ items[i] + Len(needle) <= rdr_pos

\* C30 witness: a forward searcher has yielded, as a later item, an
\* occurrence that begins in bytes read before a roll and ends in bytes read
\* after it.
C30_Witness ==
    /\ mode = "fwd" /\ needle # <<>> /\ errs = 0
    /\ pc = "idle" /\ last = "ok"
    /\ Len(items) >= 2
    /\ \E b \in rolls : /\ items[Len(items)] < b
                        /\ b < items[Len(items)] + Len(needle)

\* C31: in a backward session (for a non-empty needle, without a failed
\* stream operation and without an arithmetic overflow) every position p
\* yielded is an offset at which the needle occurs, with
\* p + needle.len() <= stream_len, and no position is yielded twice.
C31_BackwardPositionsAreOccurrences ==
    (mode = "rev" /\ needle # <<>> /\ errs = 0 /\ ~wrapped) =>
        /\ \A i \in 1..Len(items) :
              /\ items[i] + Len(needle) <= stream_len
              /\ items[i] \in Occurrences(needle, stream)
        /\ \A i, j \in 1..Len(items) : i # j => items[i] # items[j]

\* C32: in a backward session (for a non-empty needle, without a failed
\* stream operation and without an arithmetic overflow) after every refill
\* that succeeded the content of the window is the slice of the stream that
\* begins at seek_pos: content = stream[seek_pos .. seek_pos + filled_len].
C32_WindowIsContiguousSlice ==
    [][(/\ mode = "rev" /\ needle # <<>> /\ errs = 0 /\ ~wrapped
        /\ pc = "fill_exact" /\ pc' = "scan")
          => /\ seek_pos + buf'.end <= Len(stream)
             /\ RevContent(buf') = Slice(stream, seek_pos, seek_pos + buf'.end)]_vars

\* C33: in a backward session (for a non-empty needle, without a failed
\* stream operation) no subtraction on usize is about to go below zero, as
\* long as none has: not stream_pos - (filled_len - search_pos - mat) for a
\* match, not seek_pos - free capacity for a full chunk, not free capacity -
\* amount in fill_exact.
C33_NoBackwardUnderflow ==
    (mode = "rev" /\ needle # <<>> /\ errs = 0 /\ ~wrapped) =>
        LET mat == memmem_rfind(Slice(RevContent(buf), 0, buf.end - search_pos), needle)
        IN  /\ pc # "panic"
            /\ (pc = "scan" /\ search_pos < buf.end /\ mat >= 0)
                  => ~Underflows(stream_pos, buf.end - search_pos - mat)
            /\ (pc = "seek" /\ stream_pos > RevFree(buf))
                  => ~Underflows(seek_pos, RevFree(buf))
            /\ pc = "fill_exact" => ~Underflows(RevFree(buf), amount)

\* C34: in every state of a forward session stream_pos - search_pos is the
\* offset in the stream of the first byte the window holds: the number of
\* bytes read so far minus the length of the content.
C34_StreamPosTracksWindowStart ==
    mode = "fwd" => stream_pos - search_pos = rdr_pos - buf.end

\* C34 witness: a forward searcher whose window, after two rolls, no
\* longer begins at the start of the stream has yielded a match that does
\* not begin the window.
C34_Witness ==
    /\ mode = "fwd" /\ needle # <<>>
    /\ pc = "idle" /\ last = "ok"
    /\ Cardinality(rolls) >= 2
    /\ rdr_pos > buf.end
    /\ search_pos > Len(needle)
    /\ stream_pos - search_pos > 0

\* C35: two forward sessions with the same non-empty needle over the same
\* bytes, each delivered in read sizes of its own (any short reads of at
\* least one byte), neither with a failed read, yield the same sequence of
\* positions.
C35_ReadSizesDoNotMatter ==
    (/\ mode = "fwd" /\ needle # <<>> /\ short_reads
     /\ prev # NoSession /\ Collected /\ ErrorFree)
        => items = prev

\* C36: a step of a backward session (for a non-empty needle) that returns
\* Err, because the seek or the read of a chunk failed, leaves seek_pos,
\* stream_pos and the window as they were; and so a session in which calls
\* returned Err ends having yielded the positions of the session before it
\* over the same stream, in which no call did: no byte goes unsearched.
C36_FailedChunkIsRetried ==
    /\ [][(mode = "rev" /\ needle # <<>> /\ errs' = errs + 1)
             => UNCHANGED <<seek_pos, stream_pos, buf>>]_vars
    /\ []((mode = "rev" /\ needle # <<>> /\ prev # NoSession /\ Collected)
             => items = prev)

\* C37: in a search session the block that rolls the window changes the
\* window, or panics, only when the window holds at least min bytes:
\* Buffer::roll and BufferRev::roll_right are never called with
\* filled_len < min, so their expect and assert never fire.
C37_RollOnlyWithMinBytes ==
    [][(pc = "roll" /\ (buf' # buf \/ pc' = "panic")) => buf.end >= buf.min]_vars

\* C37 witness: a forward searcher for a needle of two bytes or more has
\* rolled its window for the second time and holds the min bytes it kept,
\* about to be refilled.
C37_Witness ==
    /\ mode = "fwd" /\ Len(needle) >= 2
    /\ pc = "fill"
    /\ Cardinality(rolls) >= 2
    /\ rdr_pos \in rolls
    /\ buf.end = buf.min

\* C38: whenever a forward searcher for a non-empty needle is about to read
\* into the window (in Buffer::fill), at least one byte of the window is
\* free; and a read there that returns no byte, without failing, happens
\* only at the end of the stream.
C38_FillHasRoom ==
    /\ []((mode = "fwd" /\ needle # <<>> /\ pc = "fill") => FwdFree(buf) >= 1)
    /\ [][(/\ mode = "fwd" /\ needle # <<>> /\ pc = "fill"
           /\ rdr_pos' = rdr_pos /\ faults' = faults)
             => rdr_pos = Len(stream)]_vars

\* C38 witness: a forward searcher for a non-empty needle has read a whole
\* window, rolled it while it was full, and is about to refill it.
C38_Witness ==
    /\ mode = "fwd" /\ needle # <<>>
    /\ pc = "fill"
    /\ rdr_pos = Capacity(buf)
    /\ rdr_pos \in rolls
    /\ buf.end = buf.min
    /\ rdr_pos < Len(stream)

====
